---- MODULE Spec2Model ----
(***************************************************************************)
(* Model of ObsidianSummary.find_tagged_notes (src/obsidian_summary.py)    *)
(* and of the two helpers it calls, _get_search_period and                 *)
(* _process_frontmatter.                                                   *)
(*                                                                         *)
(* Text is a sequence of one-character strings, so that startswith, find,  *)
(* slicing, splitlines, join and the three regular expressions of the      *)
(* source are computed character by character.  Python indices are         *)
(* 0-based and kept 0-based in the variables i and j; a TLA+ sequence is   *)
(* 1-based, so lines[i] of the source is lines[i + 1] here.                *)
(*                                                                         *)
(* A datetime is a number of minutes: day * 1440 + hour * 60 + minute.     *)
(***************************************************************************)
EXTENDS Integers, Sequences, FiniteSets, TLC

(***************************************************************************)
(* Bounds of the model.                                                    *)
(***************************************************************************)
\* candidate files glob.glob yields in one call of find_tagged_notes
MaxFiles == 2
\* lines of a note body in the line-scan specification
MaxLines == 3

(***************************************************************************)
(* Characters and strings.                                                 *)
(***************************************************************************)
\* the characters the regular-expression class \s matches
WhitespaceChars == {" ", "\t", "\n"}

\* the characters the regular-expression class \w matches
WordChars ==
    {"a", "b", "c", "d", "e", "f", "g", "h", "i", "j", "k", "l", "m", "n",
     "o", "p", "q", "r", "s", "t", "u", "v", "w", "x", "y", "z",
     "A", "B", "C", "D", "E", "F", "G", "H", "I", "J", "K", "L", "M", "N",
     "O", "P", "Q", "R", "S", "T", "U", "V", "W", "X", "Y", "Z",
     "0", "1", "2", "3", "4", "5", "6", "7", "8", "9", "_"}

Digits == {"0", "1", "2", "3", "4", "5", "6", "7", "8", "9"}

\* int(c) for a digit character
DigitVal(c) ==
    CASE c = "0" -> 0 [] c = "1" -> 1 [] c = "2" -> 2 [] c = "3" -> 3
      [] c = "4" -> 4 [] c = "5" -> 5 [] c = "6" -> 6 [] c = "7" -> 7
      [] c = "8" -> 8 [] OTHER -> 9

\* s[a:b] of Python, a and b 0-based, b exclusive
Slice(s, a, b) == SubSeq(s, a + 1, b)

\* s.startswith(p)
StartsWith(s, p) == Len(s) >= Len(p) /\ SubSeq(s, 1, Len(p)) = p

\* whether p occurs in s at 0-based offset k
OccursAt(s, p, k) ==
    k >= 0 /\ k + Len(p) <= Len(s) /\ Slice(s, k, k + Len(p)) = p

\* s.find(p, start): the lowest 0-based offset >= start where p occurs, or -1
Find(s, p, start) ==
    LET hits == {k \in start..(Len(s) - Len(p)) : OccursAt(s, p, k)}
    IN  IF hits = {} THEN -1
        ELSE CHOOSE k \in hits : \A h \in hits : k <= h

\* s.splitlines(): the lines of s without their line breaks; a final line
\* break ends the last line and starts no empty one
RECURSIVE Splitlines(_)
Splitlines(s) ==
    IF s = <<>> THEN <<>>
    ELSE LET k == Find(s, <<"\n">>, 0)
         IN  IF k = -1 THEN <<s>>
             ELSE <<Slice(s, 0, k)>> \o Splitlines(Slice(s, k + 1, Len(s)))

\* sep.join(parts)
RECURSIVE Join(_, _)
Join(sep, parts) ==
    IF parts = <<>> THEN <<>>
    ELSE IF Len(parts) = 1 THEN parts[1]
    ELSE parts[1] \o sep \o Join(sep, Tail(parts))

\* len(re.match(r'^(\s*)', line).group(1)): the length of the leading whitespace
RECURSIVE LeadingSpaceLen(_)
LeadingSpaceLen(line) ==
    IF line = <<>> \/ Head(line) \notin WhitespaceChars THEN 0
    ELSE 1 + LeadingSpaceLen(Tail(line))

\* not line.strip(): the line is empty or whitespace only
IsBlank(line) == LeadingSpaceLen(line) = Len(line)

\* bool(re.match(r'^(\s*)-\s+', line)): optional whitespace, a dash, at least
\* one whitespace character; group(1) is the leading whitespace
MatchListItemStart(line) ==
    LET n == LeadingSpaceLen(line)
    IN  /\ Len(line) >= n + 2
        /\ line[n + 1] = "-"
        /\ line[n + 2] \in WhitespaceChars

(***************************************************************************)
(* Python and YAML values: a tagged record [t, v].                         *)
(*   none: None      str: v is the text      int: v is the number          *)
(*   list: v is a sequence of values                                       *)
(*   map:  v is a sequence of <<key text, value>> pairs (a dict)           *)
(***************************************************************************)
NoneVal == [t |-> "none", v |-> <<>>]

StrVal(s) == [t |-> "str", v |-> s]

IntVal(n) == [t |-> "int", v |-> n]

ListVal(items) == [t |-> "list", v |-> items]

MapVal(pairs) == [t |-> "map", v |-> pairs]

\* the {} that _process_frontmatter returns when it gives up
EmptyDict == MapVal(<<>>)

\* d.get(key, default) on a dict: the value of the last pair with that key
DictGet(d, key, default) ==
    LET hits == {k \in 1..Len(d.v) : d.v[k][1] = key}
    IN  IF hits = {} THEN default
        ELSE d.v[CHOOSE k \in hits : \A h \in hits : h <= k][2]

\* the text without its leading and trailing blanks
RECURSIVE Strip(_)
Strip(s) ==
    IF s = <<>> THEN s
    ELSE IF Head(s) \in WhitespaceChars THEN Strip(Tail(s))
    ELSE IF s[Len(s)] \in WhitespaceChars THEN Strip(SubSeq(s, 1, Len(s) - 1))
    ELSE s

\* int(s) for a text of digits
RECURSIVE ParseInt(_)
ParseInt(s) ==
    IF s = <<>> THEN 0
    ELSE 10 * ParseInt(SubSeq(s, 1, Len(s) - 1)) + DigitVal(s[Len(s)])

(***************************************************************************)
(* yaml.safe_load on the block-mapping subset of YAML the headers of the   *)
(* model are written in: blank lines, unindented "key: value" lines, or    *)
(* one plain scalar.  A value is empty (None), a flow sequence [a, b],     *)
(* digits (an int) or a plain scalar (a str; the words YAML reads as a     *)
(* boolean, a null or a float are not among the inputs).  Anything else,   *)
(* an unclosed flow sequence or a flow mapping such as {{}} among it, is a *)
(* YAMLError.                                                              *)
(* The result is [ok, val]; ok = FALSE stands for the raised YAMLError.    *)
(***************************************************************************)
YamlError == [ok |-> FALSE, val |-> NoneVal]

\* the items of a flow sequence's inside, split at the commas
RECURSIVE FlowItems(_)
FlowItems(s) ==
    IF Strip(s) = <<>> THEN <<>>
    ELSE LET k == Find(s, <<",">>, 0)
         IN  IF k = -1 THEN <<StrVal(Strip(s))>>
             ELSE <<StrVal(Strip(Slice(s, 0, k)))>>
                      \o FlowItems(Slice(s, k + 1, Len(s)))

\* one scalar or flow node, already stripped
YamlNode(s) ==
    IF s = <<>> THEN [ok |-> TRUE, val |-> NoneVal]
    ELSE IF s[1] = "["
    THEN IF s[Len(s)] = "]" /\ Find(s, <<"[">>, 1) = -1
         THEN [ok |-> TRUE, val |-> ListVal(FlowItems(Slice(s, 1, Len(s) - 1)))]
         ELSE YamlError
    ELSE IF s[1] \in {"{", "}", "]", "-", "#", "&", "*", "!", "|", ">", "%", "@"}
              \/ Find(s, <<":", " ">>, 0) # -1
    THEN YamlError
    ELSE IF \A k \in 1..Len(s) : s[k] \in Digits
    THEN [ok |-> TRUE, val |-> IntVal(ParseInt(s))]
    ELSE [ok |-> TRUE, val |-> StrVal(s)]

\* whether the line is an unindented "key:" or "key: value" entry
IsYamlEntry(line) ==
    LET c == Find(line, <<":">>, 0)
    IN  /\ c > 0
        /\ line[1] \notin WhitespaceChars
        /\ \A k \in 1..c : line[k] \in WordChars
        /\ (c + 1 = Len(line) \/ line[c + 2] = " ")

YamlEntryKey(line) == Slice(line, 0, Find(line, <<":">>, 0))

YamlEntryNode(line) ==
    YamlNode(Strip(Slice(line, Find(line, <<":">>, 0) + 1, Len(line))))

YamlLoad(s) ==
    LET doc == SelectSeq(Splitlines(s), LAMBDA l : ~IsBlank(l))
    IN  IF doc = <<>> THEN [ok |-> TRUE, val |-> NoneVal]
        ELSE IF \A k \in 1..Len(doc) : IsYamlEntry(doc[k])
        THEN IF \A k \in 1..Len(doc) : YamlEntryNode(doc[k]).ok
             THEN [ok |-> TRUE,
                   val |-> MapVal([k \in 1..Len(doc) |->
                              <<YamlEntryKey(doc[k]), YamlEntryNode(doc[k]).val>>])]
             ELSE YamlError
        ELSE IF Len(doc) = 1 THEN YamlNode(Strip(doc[1]))
        ELSE YamlError

(***************************************************************************)
(* _process_frontmatter.                                                   *)
(***************************************************************************)
Delimiter == <<"-", "-", "-">>

TemplateValue ==
    <<"T", "E", "M", "P", "L", "A", "T", "E", "_", "V", "A", "L", "U", "E">>

\* re.sub(r'\{\{[^}]+\}\}', 'TEMPLATE_VALUE', s): two opening braces, at least
\* one character that is no closing brace, two closing braces
RECURSIVE ReSubTemplate(_)
ReSubTemplate(s) ==
    IF s = <<>> THEN <<>>
    ELSE LET e == Find(s, <<"}">>, 2)
         IN  IF StartsWith(s, <<"{", "{">>) /\ e > 2 /\ OccursAt(s, <<"}", "}">>, e)
             THEN TemplateValue \o ReSubTemplate(Slice(s, e + 2, Len(s)))
             ELSE <<Head(s)>> \o ReSubTemplate(Tail(s))

\* the pair (frontmatter, content) that _process_frontmatter returns
ProcessFrontmatter(content) ==
    IF ~StartsWith(content, Delimiter)
    THEN [frontmatter |-> EmptyDict, content |-> content]
    ELSE LET frontmatter_end == Find(content, Delimiter, 3)
         IN  IF frontmatter_end = -1
             THEN [frontmatter |-> EmptyDict, content |-> content]
             ELSE LET frontmatter_str ==
                          ReSubTemplate(Slice(content, 3, frontmatter_end))
                      loaded == YamlLoad(frontmatter_str)
                  IN  IF loaded.ok
                      THEN [frontmatter |-> loaded.val,
                            content |-> Slice(content, frontmatter_end + 3,
                                              Len(content))]
                      ELSE [frontmatter |-> EmptyDict, content |-> content]

(***************************************************************************)
(* The tag-match pattern and the block rule of find_tagged_notes.          *)
(***************************************************************************)
\* a faulty variant of TagMatchAt: a plain substring test, nothing is asked of
\* the character after the tag word
TagMatchAtSubstring(tag, text, k) == OccursAt(text, <<"#">> \o tag, k)

\* whether rf'#{tag}(?:$|\s|[^\w#])' matches text at 0-based offset k: the
\* marker, the tag word, then the end of the text (or of its last line), a
\* whitespace character, or a character that is neither a word character nor
\* the marker
TagMatchAt(tag, text, k) ==
    /\ OccursAt(text, <<"#">> \o tag, k)
    /\ LET e == k + 1 + Len(tag)
       IN  \/ e = Len(text)
           \/ e = Len(text) - 1 /\ text[e + 1] = "\n"
           \/ e < Len(text) /\ text[e + 1] \in WhitespaceChars
           \/ e < Len(text) /\ text[e + 1] \notin (WordChars \cup {"#"})

\* search_tag_regex.search(text) is not None
SearchTagRegex(tag, text) ==
    \E k \in 0..(Len(text) - 1) : TagMatchAt(tag, text, k)

\* a faulty variant of ContinuesBlock: a blank line is treated as any other
ContinuesBlockNoBlank(next_line, base_indent_len) ==
    IF LeadingSpaceLen(next_line) > base_indent_len THEN TRUE
    ELSE IF ~MatchListItemStart(next_line)
            /\ LeadingSpaceLen(next_line) >= base_indent_len
            /\ ~IsBlank(next_line) THEN TRUE
    ELSE FALSE

\* a faulty variant of ContinuesBlock: the third condition forgets to ask
\* that the line starts no list item
ContinuesBlockSameLevelItems(next_line, base_indent_len) ==
    IF IsBlank(next_line) THEN TRUE
    ELSE IF LeadingSpaceLen(next_line) > base_indent_len THEN TRUE
    ELSE IF LeadingSpaceLen(next_line) >= base_indent_len THEN TRUE
    ELSE FALSE

\* a faulty variant of ContinuesBlock: the second condition is missing, so a
\* nested list item ends the block
ContinuesBlockNoDeeper(next_line, base_indent_len) ==
    IF IsBlank(next_line) THEN TRUE
    ELSE IF ~MatchListItemStart(next_line)
            /\ LeadingSpaceLen(next_line) >= base_indent_len THEN TRUE
    ELSE FALSE

\* a faulty variant of ContinuesBlock: a list item is recognised only when
\* its dash is the first character of the line
ContinuesBlockUnindentedItemsOnly(next_line, base_indent_len) ==
    IF IsBlank(next_line) THEN TRUE
    ELSE IF LeadingSpaceLen(next_line) > base_indent_len THEN TRUE
    ELSE IF ~(MatchListItemStart(next_line) /\ LeadingSpaceLen(next_line) = 0)
            /\ LeadingSpaceLen(next_line) >= base_indent_len THEN TRUE
    ELSE FALSE

\* the three conditions under which next_line is appended to the open block
ContinuesBlock(next_line, base_indent_len) ==
    IF IsBlank(next_line) THEN TRUE
    ELSE IF LeadingSpaceLen(next_line) > base_indent_len THEN TRUE
    ELSE IF ~MatchListItemStart(next_line)
            /\ LeadingSpaceLen(next_line) >= base_indent_len THEN TRUE
    ELSE FALSE

\* the inner while loop: the value of j when it ends, started at j
RECURSIVE BlockEnd(_, _, _)
BlockEnd(ls, j, base_indent_len) ==
    IF j < Len(ls) /\ ContinuesBlock(ls[j + 1], base_indent_len)
    THEN BlockEnd(ls, j + 1, base_indent_len)
    ELSE j

\* "\n".join(current_block_lines) for the block lines[a:b]
BlockContent(ls, a, b) == Join(<<"\n">>, Slice(ls, a, b))

(***************************************************************************)
(* _get_search_period.                                                     *)
(***************************************************************************)
\* now.date(), as a day number
Today == 2

KeyDays == <<"d", "a", "y", "s">>

KeyStartTime == <<"s", "t", "a", "r", "t", "_", "t", "i", "m", "e">>

KeyEndTime == <<"e", "n", "d", "_", "t", "i", "m", "e">>

KeyTags == <<"t", "a", "g", "s">>

\* datetime.strptime(s, '%H:%M').time() as minutes of the day: one or two
\* digits, a colon, one or two digits, hour below 24 and minute below 60;
\* ok = FALSE stands for the raised ValueError
Strptime(s) ==
    LET c == Find(s, <<":">>, 0)
        shaped == /\ c \in {1, 2}
                  /\ Len(s) - c - 1 \in {1, 2}
                  /\ \A k \in 1..Len(s) : k # c + 1 => s[k] \in Digits
        h == ParseInt(Slice(s, 0, c))
        m == ParseInt(Slice(s, c + 1, Len(s)))
    IN  IF shaped
        THEN IF h <= 23 /\ m <= 59
             THEN [ok |-> TRUE, minutes |-> h * 60 + m]
             ELSE [ok |-> FALSE, minutes |-> 0]
        ELSE [ok |-> FALSE, minutes |-> 0]

\* the pair (start_datetime, end_datetime) that _get_search_period returns
GetSearchPeriod(search_period) ==
    LET given == DictGet(search_period, KeyDays, IntVal(1))
        days == IF given.t # "int" THEN 1
                ELSE IF given.v < 1 THEN 1 ELSE given.v
        st == Strptime(DictGet(search_period, KeyStartTime,
                               StrVal(<<"0", "0", ":", "0", "0">>)).v)
        et == Strptime(DictGet(search_period, KeyEndTime,
                               StrVal(<<"2", "3", ":", "5", "9">>)).v)
        start_time == IF st.ok /\ et.ok THEN st.minutes ELSE 0
        end_time == IF st.ok /\ et.ok THEN et.minutes ELSE 23 * 60 + 59
    IN  [start_datetime |-> (Today - (days - 1)) * 1440 + start_time,
         end_datetime |-> Today * 1440 + end_time]

(***************************************************************************)
(* Inputs: configurations, modification times, note texts.                 *)
(***************************************************************************)
\* config['target_tag']
TargetTag == <<"p">>

\* config['search_period']: absent keys; two days, office hours; one day with
\* start_time after end_time; a non-integer days and a malformed end_time
SearchPeriods ==
    { EmptyDict,
      MapVal(<< <<KeyDays, IntVal(2)>>,
                <<KeyStartTime, StrVal(<<"0", "9", ":", "0", "0">>)>>,
                <<KeyEndTime, StrVal(<<"1", "8", ":", "0", "0">>)>> >>),
      MapVal(<< <<KeyDays, IntVal(1)>>,
                <<KeyStartTime, StrVal(<<"2", "3", ":", "0", "0">>)>>,
                <<KeyEndTime, StrVal(<<"1", ":", "0", "0">>)>> >>),
      MapVal(<< <<KeyDays, StrVal(<<"x">>)>>,
                <<KeyStartTime, StrVal(<<"9", ":", "0", "0">>)>>,
                <<KeyEndTime, StrVal(<<"2", "4", ":", "0", "0">>)>> >>) }

\* os.path.getmtime of a candidate: the minute before today, the first, the
\* middle and the last minute of today, the first of tomorrow
MTimes ==
    { Today * 1440 - 1, Today * 1440, Today * 1440 + 720,
      Today * 1440 + 1439, (Today + 1) * 1440 }

\* the metadata headers of the notes: none; tags a scalar, a flow sequence
\* with and without the target tag, null, an int, a scalar the target tag is
\* a part of; no tags key, with a template placeholder; an empty header; a
\* header that is one plain scalar; an unclosed flow sequence; a placeholder
\* with nothing inside; a header that is never closed
Headers ==
    { <<>>,
      <<"-", "-", "-", "\n", "t", "a", "g", "s", ":", " ", "p", "\n", "-", "-", "-", "\n">>,
      <<"-", "-", "-", "\n", "t", "a", "g", "s", ":", " ", "[", "x", ",", " ", "p", "]", "\n", "-", "-", "-", "\n">>,
      <<"-", "-", "-", "\n", "t", "a", "g", "s", ":", " ", "[", "x", "]", "\n", "-", "-", "-", "\n">>,
      <<"-", "-", "-", "\n", "t", "a", "g", "s", ":", "\n", "-", "-", "-", "\n">>,
      <<"-", "-", "-", "\n", "t", "a", "g", "s", ":", " ", "5", "\n", "-", "-", "-", "\n">>,
      <<"-", "-", "-", "\n", "t", "a", "g", "s", ":", " ", "p", "x", "\n", "-", "-", "-", "\n">>,
      <<"-", "-", "-", "\n", "t", ":", " ", "{", "{", "t", "}", "}", "\n", "-", "-", "-", "\n">>,
      <<"-", "-", "-", "\n", "-", "-", "-", "\n">>,
      <<"-", "-", "-", "\n", "x", "\n", "-", "-", "-", "\n">>,
      <<"-", "-", "-", "\n", "t", "a", "g", "s", ":", " ", "[", "p", "\n", "-", "-", "-", "\n">>,
      <<"-", "-", "-", "\n", "t", ":", " ", "{", "{", "}", "}", "\n", "-", "-", "-", "\n">>,
      <<"-", "-", "-", "\n", "t", "a", "g", "s", ":", " ", "p", "\n">> }

\* the bodies of the notes of the file loop: a tagged list item with a
\* continuation line, a list item without the tag, the tag outside any item
Bodies ==
    { <<"-", " ", "#", "p", "\n", " ", " ", "a", "\n">>,
      <<"-", " ", "a", "\n">>,
      <<"#", "p", "\n">> }

\* what file.read() returns in the file loop
Contents == {h \o b : h \in Headers, b \in Bodies}

\* the lines of the notes of the line scan
LineSet ==
    { <<"-", " ", "a">>,
      <<"-", " ", "#", "p">>,
      <<" ", " ", "-", " ", "a">>,
      <<" ", " ", "-", " ", "#", "p">>,
      <<" ", " ", "a">>,
      <<" ", " ", "#", "p">>,
      <<>>,
      <<" ", " ", " ">>,
      <<"a">>,
      <<"#", "p">>,
      <<"-", " ", "#", "p", "x">>,
      <<"-", " ", "#", "#", "p">>,
      <<"-", " ", "#", "p", "#">> }

\* the note texts of the line scan: up to MaxLines lines, each ended by a
\* line break, and no header
ScanContents ==
    UNION { { Join(<<>>, [k \in 1..m |-> ls[k] \o <<"\n">>]) :
                ls \in [1..m -> LineSet] } : m \in 0..MaxLines }

(***************************************************************************)
(* State: the configuration, the position in find_tagged_notes, and its    *)
(* local variables.                                                        *)
(*   pc       "start", "loop" (the head of the for loop), "open",          *)
(*            "frontmatter", "tags", "search", "scan", "returned",         *)
(*            "raised"                                                     *)
(*   exc      the exception that left find_tagged_notes, "" when none      *)
(*   n_files  the candidates glob.glob has yielded so far                  *)
(*   sealed   history: the blocks lines[from:to] the scan of the current   *)
(*            file has completed, each with its base indent                *)
(***************************************************************************)
VARIABLES config, pc, exc, n_files, start_datetime, end_datetime,
          filepath, last_modified, content, original_content, frontmatter,
          tags, lines, i, extracted_tagged_blocks, notes, sealed

vars == <<config, pc, exc, n_files, start_datetime, end_datetime,
          filepath, last_modified, content, original_content, frontmatter,
          tags, lines, i, extracted_tagged_blocks, notes, sealed>>

\* the locals of one iteration of the for loop
iteration == <<content, original_content, frontmatter, tags, lines, i,
               extracted_tagged_blocks, sealed>>

\* the locals of an iteration before it assigns them (the values a previous
\* iteration left are dead: no iteration reads one before writing it)
FreshIteration ==
    /\ content' = <<>>
    /\ original_content' = <<>>
    /\ frontmatter' = NoneVal
    /\ tags' = NoneVal
    /\ lines' = <<>>
    /\ i' = 0
    /\ extracted_tagged_blocks' = <<>>
    /\ sealed' = <<>>

Init ==
    /\ config \in {[search_period |-> sp, target_tag |-> TargetTag] :
                      sp \in SearchPeriods}
    /\ pc = "start"
    /\ exc = ""
    /\ n_files = 0
    /\ start_datetime = 0
    /\ end_datetime = 0
    /\ filepath = 0
    /\ last_modified = 0
    /\ content = <<>>
    /\ original_content = <<>>
    /\ frontmatter = NoneVal
    /\ tags = NoneVal
    /\ lines = <<>>
    /\ i = 0
    /\ extracted_tagged_blocks = <<>>
    /\ notes = <<>>
    /\ sealed = <<>>

\* the exception leaves find_tagged_notes: the except clause logs and re-raises
Raise(e) ==
    /\ pc' = "raised"
    /\ exc' = e

\* lines 143-152: the search period is computed and the tree is enumerated;
\* an enumeration that fails raises
Start ==
    /\ pc = "start"
    /\ LET period == GetSearchPeriod(config.search_period)
       IN  /\ start_datetime' = period.start_datetime
           /\ end_datetime' = period.end_datetime
    /\ \E enumerated \in BOOLEAN :
          IF enumerated THEN pc' = "loop" /\ exc' = exc
          ELSE Raise("OSError")
    /\ UNCHANGED <<config, n_files, filepath, last_modified, notes>>
    /\ UNCHANGED iteration

\* lines 152-162: the next candidate; a file that vanished is skipped, and so
\* is one modified outside the period
NextFile ==
    /\ pc = "loop"
    /\ n_files < MaxFiles
    /\ n_files' = n_files + 1
    /\ filepath' = n_files + 1
    /\ \E found \in BOOLEAN, mtime \in MTimes :
          IF ~found
          THEN last_modified' = last_modified /\ pc' = "loop"
          ELSE /\ last_modified' = mtime
               /\ pc' = IF start_datetime <= mtime /\ mtime <= end_datetime
                        THEN "open" ELSE "loop"
    /\ FreshIteration
    /\ UNCHANGED <<config, exc, start_datetime, end_datetime, notes>>

\* line 240: the candidates are exhausted
Return ==
    /\ pc = "loop"
    /\ pc' = "returned"
    /\ UNCHANGED <<config, exc, n_files, start_datetime, end_datetime,
                   filepath, last_modified, notes>>
    /\ UNCHANGED iteration

\* lines 163-165: open and read; open may fail (PermissionError) and so may
\* the decoding (UnicodeDecodeError)
OpenRead ==
    /\ pc = "open"
    /\ \E failure \in {"", "PermissionError", "UnicodeDecodeError"},
          text \in Contents :
          IF failure # ""
          THEN /\ Raise(failure)
               /\ UNCHANGED <<content, original_content>>
          ELSE /\ content' = text
               /\ original_content' = text
               /\ pc' = "frontmatter"
               /\ exc' = exc
    /\ UNCHANGED <<config, n_files, start_datetime, end_datetime, filepath,
                   last_modified, frontmatter, tags, lines, i,
                   extracted_tagged_blocks, notes, sealed>>

\* lines 167-168
CallProcessFrontmatter ==
    /\ pc = "frontmatter"
    /\ LET r == ProcessFrontmatter(content)
       IN  /\ frontmatter' = r.frontmatter
           /\ content' = r.content
    /\ pc' = "tags"
    /\ UNCHANGED <<config, exc, n_files, start_datetime, end_datetime,
                   filepath, last_modified, original_content, tags, lines, i,
                   extracted_tagged_blocks, notes, sealed>>

\* lines 171-175: tags = frontmatter.get('tags', []), None becomes [], a str
\* becomes a one-element list
NormalizeTags(fm) ==
    LET given == DictGet(fm, KeyTags, ListVal(<<>>))
    IN  IF given.t = "none" THEN ListVal(<<>>)
        ELSE IF given.t = "str" THEN ListVal(<<given>>)
        ELSE given

\* a faulty variant of TagInList: the tag is looked up with its marker
TagInListWithMarker(target, list) ==
    \E k \in 1..Len(list.v) :
       list.v[k].t = "str" /\ list.v[k].v = <<"#">> \o target

\* self.config['target_tag'] in tags, for a list
TagInList(target, list) ==
    \E k \in 1..Len(list.v) : list.v[k].t = "str" /\ list.v[k].v = target

\* lines 171-181: the tags of the header; a note that carries the target tag
\* there is appended whole.  frontmatter.get raises on a value that is no
\* dict, and the membership test raises on an int
CheckTags ==
    /\ pc = "tags"
    /\ IF frontmatter.t # "map"
       THEN /\ Raise("AttributeError")
            /\ UNCHANGED <<tags, notes>>
       ELSE LET normalized == NormalizeTags(frontmatter)
            IN  /\ tags' = normalized
                /\ IF normalized.t # "list"
                   THEN Raise("TypeError") /\ UNCHANGED notes
                   ELSE IF TagInList(config.target_tag, normalized)
                   THEN /\ notes' = Append(notes, <<filepath, original_content>>)
                        /\ pc' = "loop"
                        /\ exc' = exc
                   ELSE /\ pc' = "search"
                        /\ exc' = exc
                        /\ UNCHANGED notes
    /\ UNCHANGED <<config, n_files, start_datetime, end_datetime, filepath,
                   last_modified, content, original_content, frontmatter,
                   lines, i, extracted_tagged_blocks, sealed>>

\* lines 184-195: a body the pattern does not occur in is skipped; the lines
\* of another are scanned
SearchBody ==
    /\ pc = "search"
    /\ IF ~SearchTagRegex(config.target_tag, content)
       THEN /\ pc' = "loop"
            /\ UNCHANGED <<lines, i, extracted_tagged_blocks>>
       ELSE /\ pc' = "scan"
            /\ lines' = Splitlines(content)
            /\ extracted_tagged_blocks' = <<>>
            /\ i' = 0
    /\ UNCHANGED <<config, exc, n_files, start_datetime, end_datetime,
                   filepath, last_modified, content, original_content,
                   frontmatter, tags, notes, sealed>>

\* lines 196-198, 233-235: a line that starts no list item is passed
ScanSkipLine ==
    /\ pc = "scan"
    /\ i < Len(lines)
    /\ ~MatchListItemStart(lines[i + 1])
    /\ i' = i + 1
    /\ UNCHANGED <<config, pc, exc, n_files, start_datetime, end_datetime,
                   filepath, last_modified, content, original_content,
                   frontmatter, tags, lines, extracted_tagged_blocks, notes,
                   sealed>>

\* line 228: whether the completed block is kept
BlockAccepted(tag, block_content) == SearchTagRegex(tag, block_content)

\* a faulty variant of NextCursor: after a block the cursor moves on by one
\* line, as it does after a line outside a block
NextCursorByOne(cursor, j) == cursor + 1

\* line 232: i = j, the cursor after a block lines[cursor:j] is completed
NextCursor(cursor, j) == j

\* lines 196-232: a line that starts a list item opens a block; the lines
\* that continue it are collected, the block is kept if the pattern occurs
\* in it, and the scan goes on at the line that ended it
ScanBlock ==
    /\ pc = "scan"
    /\ i < Len(lines)
    /\ MatchListItemStart(lines[i + 1])
    /\ LET base_indent_len == LeadingSpaceLen(lines[i + 1])
           j == BlockEnd(lines, i + 1, base_indent_len)
           block_content == BlockContent(lines, i, j)
       IN  /\ extracted_tagged_blocks' =
                 IF BlockAccepted(config.target_tag, block_content)
                 THEN Append(extracted_tagged_blocks, block_content)
                 ELSE extracted_tagged_blocks
           /\ sealed' = Append(sealed, [from |-> i, to |-> j,
                                        base |-> base_indent_len])
           /\ i' = NextCursor(i, j)
    /\ UNCHANGED <<config, pc, exc, n_files, start_datetime, end_datetime,
                   filepath, last_modified, content, original_content,
                   frontmatter, tags, lines, notes>>

\* a faulty variant of AppendBlocks: the test for an empty list is missing
AppendBlocksAlways(ns, path, blocks) ==
    Append(ns, <<path, Join(<<"\n", "\n">>, blocks)>>)

\* lines 237-238: what the scan appends to notes
AppendBlocks(ns, path, blocks) ==
    IF blocks # <<>>
    THEN Append(ns, <<path, Join(<<"\n", "\n">>, blocks)>>)
    ELSE ns

\* lines 196, 237-239: the scan is over; the kept blocks, if any, are joined
\* and appended
ScanEnd ==
    /\ pc = "scan"
    /\ i >= Len(lines)
    /\ notes' = AppendBlocks(notes, filepath, extracted_tagged_blocks)
    /\ pc' = "loop"
    /\ UNCHANGED <<config, exc, n_files, start_datetime, end_datetime,
                   filepath, last_modified>>
    /\ UNCHANGED iteration

\* find_tagged_notes, called once
Next ==
    \/ Start
    \/ NextFile
    \/ Return
    \/ OpenRead
    \/ CallProcessFrontmatter
    \/ CheckTags
    \/ SearchBody
    \/ ScanSkipLine
    \/ ScanBlock
    \/ ScanEnd

Spec == Init /\ [][Next]_vars

(***************************************************************************)
(* The line scan alone: one note inside the period has been read, its text *)
(* drawn from ScanContents, and find_tagged_notes goes on from there to    *)
(* the end of the iteration.                                               *)
(***************************************************************************)
InitScan ==
    /\ config = [search_period |-> EmptyDict, target_tag |-> TargetTag]
    /\ pc = "frontmatter"
    /\ exc = ""
    /\ n_files = 1
    /\ start_datetime = GetSearchPeriod(EmptyDict).start_datetime
    /\ end_datetime = GetSearchPeriod(EmptyDict).end_datetime
    /\ filepath = 1
    /\ last_modified = Today * 1440 + 720
    /\ content \in ScanContents
    /\ original_content = content
    /\ frontmatter = NoneVal
    /\ tags = NoneVal
    /\ lines = <<>>
    /\ i = 0
    /\ extracted_tagged_blocks = <<>>
    /\ notes = <<>>
    /\ sealed = <<>>

NextScan ==
    \/ CallProcessFrontmatter
    \/ CheckTags
    \/ SearchBody
    \/ ScanSkipLine
    \/ ScanBlock
    \/ ScanEnd

SpecScan == InitScan /\ [][NextScan]_vars

(***************************************************************************)
(* Vocabulary of the properties, written from their statements and not     *)
(* from the operators above.  Line numbers n are 1-based; the block        *)
(* lines[from:to] holds the lines from + 1 .. to.                          *)
(***************************************************************************)
\* the marker and the tag word stand at 1-based position k of text and the
\* character after the word, if any, is neither a word character nor the marker
TagWordAt(text, k) ==
    /\ k + Len(TargetTag) <= Len(text)
    /\ text[k] = "#"
    /\ SubSeq(text, k + 1, k + Len(TargetTag)) = TargetTag
    /\ (k + Len(TargetTag) < Len(text)
           => text[k + Len(TargetTag) + 1] \notin (WordChars \cup {"#"}))

CarriesTag(text) == \E k \in 1..Len(text) : TagWordAt(text, k)

\* as CarriesTag, and the character before the marker is not the marker either
CarriesTagAlone(text) ==
    \E k \in 1..Len(text) : TagWordAt(text, k) /\ (k > 1 => text[k - 1] # "#")

\* the lines from + 1 .. to of the block b
BlockLines(b) == (b.from + 1)..b.to

\* the text of the block b
BlockText(b) == Join(<<"\n">>, SubSeq(lines, b.from + 1, b.to))

\* the completed blocks the tag occurs in, in the order of their completion
TaggedBlocks ==
    SelectSeq(sealed, LAMBDA b : \E n \in BlockLines(b) : CarriesTag(lines[n]))

\* a line that is not blank, not indented and starts no list item
UnindentedText(line) ==
    /\ ~IsBlank(line)
    /\ LeadingSpaceLen(line) = 0
    /\ ~MatchListItemStart(line)

\* the current iteration has ended (by a skip, an append or the end of the scan)
IterationDone == pc \in {"loop", "returned"} /\ n_files > 0

\* the current iteration has ended and its scan has run
ScanDone == IterationDone /\ lines # <<>>

\* the notes the current file has contributed
OwnNotes == {k \in 1..Len(notes) : notes[k][1] = filepath}

\* nothing is left of the text after trimming
EmptyAfterStrip(s) == \A k \in 1..Len(s) : s[k] \in WhitespaceChars

\* the header has been parsed to a mapping whose tags hold the target tag
HeaderCarriesTag ==
    /\ frontmatter.t = "map"
    /\ tags.t = "list"
    /\ LET given == DictGet(frontmatter, KeyTags, NoneVal)
       IN  \/ given.t = "str" /\ given.v = TargetTag
           \/ given.t = "list"
                /\ \E k \in 1..Len(given.v) : given.v[k] = StrVal(TargetTag)

\* the body is two list items, the second starting at line k: both start
\* lines have the same indent, every other line is blank or indented deeper
TwoSiblings(body, k) ==
    /\ MatchListItemStart(body[1])
    /\ MatchListItemStart(body[k])
    /\ LeadingSpaceLen(body[k]) = LeadingSpaceLen(body[1])
    /\ \A n \in (1..Len(body)) \ {1, k} :
          IsBlank(body[n]) \/ LeadingSpaceLen(body[n]) > LeadingSpaceLen(body[1])

\* the tag occurs on lines of the second item only
TagInSecondOnly(body, k) ==
    /\ \A n \in 1..(k - 1) : ~CarriesTag(body[n])
    /\ \E n \in k..Len(body) : CarriesTag(body[n])

\* line s starts a list item and the lines s + 1 .. t are indented deeper
ItemWithDeeperLines(s, t) ==
    /\ s <= t
    /\ MatchListItemStart(lines[s])
    /\ \A n \in (s + 1)..t :
          LeadingSpaceLen(lines[n]) > LeadingSpaceLen(lines[s])

(***************************************************************************)
(* C1 (stated as claimed; the code violates it): no exception raised while *)
(* processing an individual candidate file aborts the scan; only a failure *)
(* of the enumeration leaves find_tagged_notes as an exception.            *)
(***************************************************************************)
C1_OnlyEnumerationFailureRaises ==
    pc = "raised" => (n_files = 0 /\ exc = "OSError")

(***************************************************************************)
(* C2 (as claimed; violated): what the pattern accepts, in the cheap       *)
(* rejection and in the acceptance of a block, carries the tag as a word   *)
(* of its own: '#p' not followed by a word character and not preceded by   *)
(* the marker, so that a block whose only occurrence is '##p' is not       *)
(* retained.                                                               *)
(***************************************************************************)
C2_PatternRejectsDoubledMarker ==
    /\ pc = "scan" => CarriesTagAlone(content)
    /\ \A e \in 1..Len(extracted_tagged_blocks) :
          CarriesTagAlone(extracted_tagged_blocks[e])

(***************************************************************************)
(* C2 (amended): the pattern constrains only what follows the tag word.    *)
(* A body is scanned iff it holds '#p' followed by the end of the text,    *)
(* whitespace or a character that is neither a word character nor '#',     *)
(* and the retained blocks are exactly the completed blocks that hold such *)
(* an occurrence; '#px' and '#p#' are no occurrence, '##p' is one.         *)
(***************************************************************************)
C2_PatternChecksFollowingCharOnly ==
    /\ pc = "scan" => CarriesTag(content)
    /\ (IterationDone /\ tags.t = "list" /\ lines = <<>> /\ OwnNotes = {})
          => ~CarriesTag(content)
    /\ pc \in {"scan", "loop"} =>
          /\ Len(extracted_tagged_blocks) = Len(TaggedBlocks)
          /\ \A e \in 1..Len(TaggedBlocks) :
                extracted_tagged_blocks[e] = BlockText(TaggedBlocks[e])
    /\ ~CarriesTag(<<"-", " ", "#", "p", "x">>)
    /\ ~CarriesTag(<<"-", " ", "#", "p", "#">>)

\* C2's case: of two sibling items the one whose only marker occurrence is
\* '##p' has been retained and the one that holds '#px' has not
C2_Witness ==
    /\ ScanDone
    /\ extracted_tagged_blocks = << <<"-", " ", "#", "#", "p">> >>
    /\ \E b \in 1..Len(sealed) :
          BlockText(sealed[b]) = <<"-", " ", "#", "p", "x">>
    /\ Len(notes) = 1

(***************************************************************************)
(* C3 (as claimed; violated): a blank line that is followed by an          *)
(* unindented non-list line is not part of a retained block, and neither   *)
(* is that line.                                                           *)
(***************************************************************************)
C3_TrailingBlankExcluded ==
    pc \in {"scan", "loop"} =>
       \A e \in 1..Len(TaggedBlocks) :
          \A n \in 2..(Len(lines) - 1) :
             (n > TaggedBlocks[e].from + 1 /\ IsBlank(lines[n])
                  /\ UnindentedText(lines[n + 1]))
                => TaggedBlocks[e].to < n

(***************************************************************************)
(* C3 (amended): every blank line met while a block is open is appended:   *)
(* the text of a retained block is all its lines in order, blank ones      *)
(* included, a block never ends at a blank line, and the unindented        *)
(* non-list line after it ends the block only when the base indent of the  *)
(* item is greater than 0 (after an item at indent 0 it is appended too).  *)
(***************************************************************************)
C3_BlankLinesStayInBlock ==
    pc \in {"scan", "loop"} =>
       /\ \A b \in 1..Len(sealed) :
             /\ sealed[b].to < Len(lines) => ~IsBlank(lines[sealed[b].to + 1])
             /\ (sealed[b].to < Len(lines)
                    /\ UnindentedText(lines[sealed[b].to + 1]))
                   => sealed[b].base > 0
       /\ Len(extracted_tagged_blocks) = Len(TaggedBlocks)
       /\ \A e \in 1..Len(TaggedBlocks) :
             Splitlines(extracted_tagged_blocks[e] \o <<"\n">>)
                = SubSeq(lines, TaggedBlocks[e].from + 1, TaggedBlocks[e].to)

\* C3's case: a retained block ends with a blank line, which is the last
\* line of its extracted text, and the line after it is an unindented
\* non-list line
C3_Witness ==
    /\ pc = "loop"
    /\ \E e \in 1..Len(TaggedBlocks) :
          LET b == TaggedBlocks[e]
          IN  /\ b.to < Len(lines)
              /\ IsBlank(lines[b.to])
              /\ UnindentedText(lines[b.to + 1])
              /\ Len(extracted_tagged_blocks[e]) > 0
              /\ extracted_tagged_blocks[e][Len(extracted_tagged_blocks[e])] = "\n"

(***************************************************************************)
(* C4: a note inside the period whose normalized header tags (absent or    *)
(* null: none; a scalar string: that one) hold the target tag contributes  *)
(* exactly one pair, the path with the full text as read, header included, *)
(* and its lines are not scanned.                                          *)
(***************************************************************************)
C4_HeaderTaggedNoteAppendedWhole ==
    HeaderCarriesTag =>
       /\ pc \in {"loop", "returned"}
       /\ Cardinality(OwnNotes) = 1
       /\ notes[Len(notes)] = <<filepath, original_content>>
       /\ StartsWith(notes[Len(notes)][2], Delimiter)
       /\ start_datetime <= last_modified /\ last_modified <= end_datetime
       /\ lines = <<>> /\ sealed = <<>> /\ extracted_tagged_blocks = <<>>

\* C4's case: a second note has been appended whole, its header giving the
\* target tag as a scalar string
C4_Witness ==
    /\ HeaderCarriesTag
    /\ Len(notes) = 2
    /\ DictGet(frontmatter, KeyTags, NoneVal).t = "str"
    /\ content # original_content

(***************************************************************************)
(* C5 (as claimed; violated): the pair _get_search_period returns          *)
(* satisfies start <= end for every configuration.                         *)
(***************************************************************************)
C5_StartNotAfterEnd == pc # "start" => start_datetime <= end_datetime

(***************************************************************************)
(* C6 (as claimed; violated): the first component of what                  *)
(* _process_frontmatter returns is a mapping, so that the lookup of its    *)
(* tags by the caller cannot fail.                                         *)
(***************************************************************************)
C6_FrontmatterIsMapping ==
    /\ pc = "tags" => frontmatter.t = "map"
    /\ exc # "AttributeError"

(***************************************************************************)
(* C7: a note without the target tag in its header is in the result iff    *)
(* its scan retained a block; a note without any occurrence of the tag, or *)
(* with occurrences outside every block only, contributes nothing; and no  *)
(* pair holds a text that is empty after trimming.                         *)
(***************************************************************************)
C7_AppendedIffBlockRetained ==
    /\ \A k \in 1..Len(notes) : ~EmptyAfterStrip(notes[k][2])
    /\ (IterationDone /\ ~HeaderCarriesTag) =>
          LET body == Splitlines(content)
              inBlock(n) == \E b \in 1..Len(sealed) : n \in BlockLines(sealed[b])
          IN  /\ (OwnNotes # {}) <=> (Len(TaggedBlocks) > 0)
              /\ Cardinality(OwnNotes) <= 1
              /\ (\A n \in 1..Len(body) : CarriesTag(body[n]) => ~inBlock(n))
                    => OwnNotes = {}

\* C7's case: a scanned note whose tag occurrences all lie outside its blocks
\* has contributed nothing although it holds a list item
C7_Witness ==
    /\ ScanDone
    /\ Len(sealed) > 0
    /\ TaggedBlocks = <<>>
    /\ notes = <<>>

(***************************************************************************)
(* C8: a body of two sibling list items at the same indentation, the tag   *)
(* on lines of the second only, yields exactly the text of the second      *)
(* item: the first block ends where the second item starts.                *)
(***************************************************************************)
C8_SecondSiblingOnly ==
    IterationDone =>
       LET body == Splitlines(content)
       IN  \A k \in 2..Len(body) :
              (TwoSiblings(body, k) /\ TagInSecondOnly(body, k)) =>
                 /\ notes = << <<filepath,
                                 Join(<<"\n">>, SubSeq(body, k, Len(body)))>> >>
                 /\ Len(sealed) = 2
                 /\ sealed[1].to = k - 1
                 /\ sealed[2].from = k - 1

\* C8's case: such a body of three lines has been scanned
C8_Witness ==
    /\ IterationDone
    /\ Len(lines) = 3
    /\ \E k \in 2..3 : TwoSiblings(lines, k) /\ TagInSecondOnly(lines, k)
    /\ Len(notes) = 1

(***************************************************************************)
(* C9: a list-item start line and the lines after it that are indented     *)
(* deeper than it lie in one completed block, in order; the block starts   *)
(* at the item line unless that line is itself inside an earlier block;    *)
(* and if the tag occurs on one of them the block is extracted whole.      *)
(***************************************************************************)
C9_DeeperLinesStayInBlock ==
    ScanDone =>
       \A s \in 1..Len(lines), t \in 1..Len(lines) :
          ItemWithDeeperLines(s, t) =>
             \E b \in 1..Len(sealed) :
                /\ sealed[b].from < s /\ t <= sealed[b].to
                /\ (\A c \in 1..Len(sealed) : s - 1 \notin BlockLines(sealed[c])
                                                \/ s = 1)
                      => (sealed[b].from = s - 1 \/ s - 1 \in BlockLines(sealed[b]))
                /\ (\E n \in s..t : CarriesTag(lines[n])) =>
                      \E e \in 1..Len(extracted_tagged_blocks) :
                         Splitlines(extracted_tagged_blocks[e] \o <<"\n">>)
                            = SubSeq(lines, sealed[b].from + 1, sealed[b].to)

\* C9's case: an item line and two deeper lines, one of them a nested list
\* item, make one three-line block that has been extracted
C9_Witness ==
    /\ ScanDone
    /\ Len(lines) = 3
    /\ ItemWithDeeperLines(1, 3)
    /\ \E n \in 2..3 : MatchListItemStart(lines[n])
    /\ sealed = <<[from |-> 0, to |-> 3, base |-> 0]>>
    /\ Len(notes) = 1

(***************************************************************************)
(* C10 (as claimed; violated): a line that matches the list-item start     *)
(* pattern is never appended to an open block, at any indentation.         *)
(***************************************************************************)
C10_ItemLineNeverAppended ==
    \A b \in 1..Len(sealed) :
       \A n \in (sealed[b].from + 2)..sealed[b].to :
          ~MatchListItemStart(lines[n])

(***************************************************************************)
(* C10 (amended): a list-item line is appended to an open block only when  *)
(* it is indented deeper than the base indent of the block; one at the     *)
(* base indent or less ends the block and starts the next one.             *)
(***************************************************************************)
C10_ItemLineAppendedOnlyIfDeeper ==
    \A b \in 1..Len(sealed) :
       /\ \A n \in (sealed[b].from + 2)..sealed[b].to :
             MatchListItemStart(lines[n])
                => LeadingSpaceLen(lines[n]) > sealed[b].base
       /\ (sealed[b].to < Len(lines)
              /\ MatchListItemStart(lines[sealed[b].to + 1]))
             => /\ LeadingSpaceLen(lines[sealed[b].to + 1]) <= sealed[b].base
                /\ IF b < Len(sealed) THEN sealed[b + 1].from = sealed[b].to
                   ELSE pc = "scan" /\ i = sealed[b].to

\* C10's case: a completed block holds a nested list-item line and was ended
\* by a list-item line at its base indent, which started the next block
C10_Witness ==
    \E b \in 1..Len(sealed) :
       /\ \E n \in (sealed[b].from + 2)..sealed[b].to :
             MatchListItemStart(lines[n])
       /\ b < Len(sealed)
       /\ sealed[b + 1].from = sealed[b].to
       /\ LeadingSpaceLen(lines[sealed[b].to + 1]) = sealed[b].base

(***************************************************************************)
(* C11: the line scan terminates.  Every iteration of the outer loop moves *)
(* the cursor i forward, by one line outside a block and to the end j > i  *)
(* of the block it completes otherwise; i never passes len(lines) and the  *)
(* loop is left only with i = len(lines); the cursor never goes back into  *)
(* a completed block, so the completed blocks are disjoint contiguous      *)
(* ranges of lines in increasing order, and the retained texts follow that *)
(* order.  Termination is stated by its variant: len(lines) - i is never   *)
(* negative and decreases in every iteration, and the scan always has a    *)
(* next step until it is left, so it is left after at most len(lines)      *)
(* iterations.                                                             *)
(***************************************************************************)
\* one iteration of the outer loop moves the cursor forward as stated
CursorAdvances ==
    (pc = "scan" /\ pc' = "scan") =>
       /\ i < i' /\ i' <= Len(lines)
       /\ lines' = lines
       /\ IF MatchListItemStart(lines[i + 1])
          THEN /\ Len(sealed') = Len(sealed) + 1
               /\ sealed'[Len(sealed')].from = i
               /\ sealed'[Len(sealed')].to = i'
          ELSE i' = i + 1 /\ sealed' = sealed

\* the scan is never stuck: while it runs, a step that changes the state can
\* be taken
ScanNotStuck == pc = "scan" => ENABLED <<NextScan>>_vars

\* the loop is left only when the cursor is at len(lines)
LeavesAtEnd == (pc = "scan" /\ pc' # "scan") => (i = Len(lines) /\ i' = i)

\* the completed blocks are non-empty, disjoint, in increasing order and
\* behind the cursor; the retained texts are those of the tagged ones in
\* the same order
BlocksOrdered ==
    /\ 0 <= i /\ i <= Len(lines)
    /\ \A b \in 1..Len(sealed) :
          /\ 0 <= sealed[b].from
          /\ sealed[b].from < sealed[b].to
          /\ sealed[b].to <= i
          /\ b < Len(sealed) => sealed[b].to <= sealed[b + 1].from
    /\ Len(extracted_tagged_blocks) = Len(TaggedBlocks)
    /\ \A e \in 1..Len(TaggedBlocks) :
          extracted_tagged_blocks[e] = BlockText(TaggedBlocks[e])

C11_ScanTerminates ==
    /\ [][CursorAdvances /\ LeavesAtEnd]_vars
    /\ [](pc \in {"scan", "loop"} => BlocksOrdered)
    /\ []ScanNotStuck

\* C11's case: a scan of three lines has ended after one line outside a
\* block and two blocks, the first of them tagged
C11_Witness ==
    /\ ScanDone
    /\ i = 3
    /\ Len(lines) = 3
    /\ Len(sealed) >= 1
    /\ sealed[1].from > 0
    /\ \E b \in 1..Len(sealed) : sealed[b].to - sealed[b].from = 2
    /\ Len(extracted_tagged_blocks) = 1

====
